---- MODULE Spec2Model ----
(***************************************************************************)
(* A model of the scripts under .perf/.scripts:                            *)
(*   analyze-flamegraph.py  constant-pool decompression, call-record       *)
(*                          extraction, sample aggregation, hotspot report *)
(*   imap-tool.py           verify_delivery                                *)
(* A Python string is a sequence of one-character strings, so that         *)
(* slicing, ord(), strip() and the `in` substring test are computed as the *)
(* code computes them.                                                     *)
(***************************************************************************)
EXTENDS Integers, Sequences, FiniteSets, TLC

VARIABLES
    pc,             \* the statement the script is at
    content,        \* the report document read at analyze-flamegraph.py:9-10
    cpool_raw,      \* analyze-flamegraph.py:19
    cpool,          \* analyze-flamegraph.py:28
    i,              \* loop index of analyze-flamegraph.py:29
    all_frames,     \* analyze-flamegraph.py:45
    frame_counts,   \* analyze-flamegraph.py:66, a dict in insertion order
    next_ref,       \* how many of all_frames the loop of line 67 has taken
    total_samples,  \* analyze-flamegraph.py:97
    robin_frames,   \* analyze-flamegraph.py:101
    sorted_robin,   \* analyze-flamegraph.py:113
    robin_total,    \* analyze-flamegraph.py:120
    categories,     \* analyze-flamegraph.py:134
    stdout,         \* what the script has printed to standard output
    exception,      \* the uncaught exception that ended the script, or "none"
    exit_status,    \* the process's exit status, or "running"
    imap            \* imap-tool.py: verify_delivery's call, the server, stderr

vars ==
    <<pc, content, cpool_raw, cpool, i, all_frames, frame_counts, next_ref, total_samples,
      robin_frames, sorted_robin, robin_total, categories, stdout, exception,
      exit_status, imap>>

poolVars == <<cpool_raw, cpool, i>>
refVars == <<all_frames, frame_counts, next_ref>>
mainVars == <<total_samples, robin_frames, sorted_robin, robin_total, categories>>
procVars == <<stdout, exception, exit_status>>

----------------------------------------------------------------------------
(* Bounds of the model. *)

\* the longest frame name the profiler encodes
MaxStr == 2
\* the most literals a pool declaration holds
MaxPool == 3
\* the most call records a report holds
MaxRecords == 2
\* the most frame references the aggregation loop is given
MaxRefs == 3
\* the most frames of a frame_counts drawn from the Robin frame names
MaxFrames == 2

----------------------------------------------------------------------------
(* Python strings and sequences. *)

Min(a, b) == IF a < b THEN a ELSE b
Max(a, b) == IF a > b THEN a ELSE b

\* the printable ASCII characters: code points 32..95 and 97..126 (a TLA+
\* string cannot hold code point 96, the grave accent, which no input of
\* the model uses)
AsciiLow ==
    <<
       " ", "!", "\"", "#", "$", "%", "&", "'", "(", ")", "*", "+", ",", "-", ".", "/",
       "0", "1", "2", "3", "4", "5", "6", "7", "8", "9", ":", ";", "<", "=", ">", "?",
       "@", "A", "B", "C", "D", "E", "F", "G", "H", "I", "J", "K", "L", "M", "N", "O",
       "P", "Q", "R", "S", "T", "U", "V", "W", "X", "Y", "Z", "[", "\\", "]", "^", "_"
    >>
AsciiHigh ==
    <<
       "a", "b", "c", "d", "e", "f", "g", "h", "i", "j", "k", "l", "m", "n", "o",
       "p", "q", "r", "s", "t", "u", "v", "w", "x", "y", "z", "{", "|", "}", "~"
    >>

\* ord(c) and chr(n) of Python, on these characters
Ord(c) ==
    IF \E k \in 1..Len(AsciiLow) : AsciiLow[k] = c
    THEN 31 + (CHOOSE k \in 1..Len(AsciiLow) : AsciiLow[k] = c)
    ELSE 96 + (CHOOSE k \in 1..Len(AsciiHigh) : AsciiHigh[k] = c)
Chr(n) == IF n < 96 THEN AsciiLow[n - 31] ELSE AsciiHigh[n - 96]

\* s[:n], for a negative n too
SliceTo(s, n) ==
    IF n >= 0 THEN SubSeq(s, 1, Min(n, Len(s)))
    ELSE SubSeq(s, 1, Max(0, Len(s) + n))

\* s[a:b] with 0 <= a and b <= 0 counted from the end (b = 0: to the end)
SliceMid(s, a, b) == SubSeq(s, a + 1, Len(s) + b)

StartsWith(s, p) == Len(s) >= Len(p) /\ SubSeq(s, 1, Len(p)) = p
EndsWith(s, p) == Len(s) >= Len(p) /\ SubSeq(s, Len(s) - Len(p) + 1, Len(s)) = p

\* p in s
Contains(s, p) ==
    \E k \in 0..(Len(s) - Len(p)) : SubSeq(s, k + 1, k + Len(p)) = p

RECURSIVE LStrip(_)
LStrip(s) == IF s # <<>> /\ Head(s) = " " THEN LStrip(Tail(s)) ELSE s

RECURSIVE RStrip(_)
RStrip(s) ==
    IF s # <<>> /\ s[Len(s)] = " " THEN RStrip(SubSeq(s, 1, Len(s) - 1)) ELSE s

\* s.strip()
Strip(s) == RStrip(LStrip(s))

\* the sequences over S of length at most n
SeqsUpTo(S, n) == UNION {[1..k -> S] : k \in 0..n}

RECURSIVE SumSeq(_)
SumSeq(s) == IF s = <<>> THEN 0 ELSE Head(s) + SumSeq(Tail(s))

----------------------------------------------------------------------------
(* The report document's pool declaration, as the profiler writes it. *)

NameChars == {"a", "b"}
Names == SeqsUpTo(NameChars, MaxStr)

\* the lengths of the common prefixes of two strings
CommonPrefixLens(s, t) ==
    {p \in 0..Min(Len(s), Len(t)) : SubSeq(s, 1, p) = SubSeq(t, 1, p)}

\* How entry k of the pool may be written: with a prefix length p (as the
\* character chr(32+p) followed by the rest of the name), or, for an empty
\* name, as the empty literal (written -1 here).
Choices(names, k) ==
    IF k = 1 THEN {0}
    ELSE CommonPrefixLens(names[k - 1], names[k])
             \cup (IF names[k] = <<>> THEN {-1} ELSE {})

EncodeEntry(names, k, p) ==
    IF k = 1 THEN names[1]
    ELSE IF p = -1 THEN <<>>
    ELSE <<Chr(32 + p)>> \o SubSeq(names[k], p + 1, Len(names[k]))

Encode(names, ch) == [k \in 1..Len(names) |-> EncodeEntry(names, k, ch[k])]

Quote == <<"'">>
QuoteComma == <<"'", ",">>

\* every way of writing the first k entries
RECURSIVE ChoiceSeqs(_, _)
ChoiceSeqs(names, k) ==
    IF k = 0 THEN {<<>>}
    ELSE {Append(c, p) : c \in ChoiceSeqs(names, k - 1), p \in Choices(names, k)}

\* the indentation of line k of the declaration
Indent(k) == [j \in 1..(k % 3) |-> " "]

\* a line that is no quoted literal: a literal left unterminated
JunkLine == <<"'", "a">>

\* The text between "const cpool = [" and "];", split at line breaks: an
\* empty first and last line, and one quoted literal per line, indented,
\* each but the last followed by a comma; a malformed declaration also
\* holds a line that is no quoted literal.
Render(lits, malformed) ==
    <<<<>>>>
      \o [k \in 1..Len(lits) |->
            Indent(k) \o Quote \o lits[k]
                \o (IF k < Len(lits) THEN QuoteComma ELSE Quote)]
      \o (IF malformed THEN <<JunkLine>> ELSE <<>>)
      \o <<<<>>>>

\* a report without a pool declaration
NoDocument ==
    [hasPool |-> FALSE, malformed |-> FALSE, names |-> <<>>, literals |-> <<>>,
     lines |-> <<>>, records |-> <<>>]

\* a report whose pool declaration holds names, written as ch chooses
PoolDocument(names, ch, malformed) ==
    [hasPool |-> TRUE, malformed |-> malformed, names |-> names,
     literals |-> Encode(names, ch),
     lines |-> Render(Encode(names, ch), malformed), records |-> <<>>]

----------------------------------------------------------------------------
(* parse_flamegraph_html, the constant pool (lines 12-39). *)

\* line 22: line.startswith("'") and line.endswith(("',", "'"))
IsLiteralLine(line) ==
    StartsWith(line, Quote) /\ (EndsWith(line, QuoteComma) \/ EndsWith(line, Quote))

\* line 24
StringVal(line) ==
    IF EndsWith(line, QuoteComma) THEN SliceMid(line, 1, -2)
    ELSE SliceMid(line, 1, -1)

\* lines 19-25
RECURSIVE ParseLines(_)
ParseLines(lines) ==
    IF lines = <<>> THEN <<>>
    ELSE LET line == Strip(Head(lines))
         IN (IF IsLiteralLine(line) THEN <<StringVal(line)>> ELSE <<>>)
                \o ParseLines(Tail(lines))

\* a plausible slip: the prefix is measured against an offset of 33
DecompressOffByOne(prev, raw) ==
    IF raw # <<>> THEN SliceTo(prev, Ord(raw[1]) - 33) \o Tail(raw) ELSE <<>>

\* lines 30-37: one entry from its literal and the entry decompressed before
Decompress(prev, raw) ==
    IF raw # <<>>
    THEN LET prefix_len == Ord(raw[1]) - 32
             suffix == Tail(raw)
         IN SliceTo(prev, prefix_len) \o suffix
    ELSE <<>>

ErrNoPool == "ERROR: Could not find constant pool"

\* an uncaught exception: the interpreter prints a traceback to standard
\* error and the process exits with status 1
Raise(e) ==
    /\ pc' = "exit"
    /\ exception' = e
    /\ exit_status' = 1

\* lines 13-16: re.search for the declaration
Search ==
    /\ pc = "search"
    /\ IF content.hasPool
       THEN /\ pc' = "lines"
            /\ stdout' = stdout
       ELSE /\ pc' = "no_result"
            /\ stdout' = Append(stdout, <<ErrNoPool>>)
    /\ UNCHANGED <<content, poolVars, refVars, mainVars, exception, exit_status, imap>>

\* lines 89-92: main when parse_flamegraph_html returned None
MainNoResult ==
    /\ pc = "no_result"
    /\ pc' = "exit"
    /\ exit_status' = 1
    /\ UNCHANGED <<content, poolVars, refVars, mainVars, stdout, exception, imap>>

\* lines 18-25
ReadLiterals ==
    /\ pc = "lines"
    /\ cpool_raw' = ParseLines(content.lines)
    /\ pc' = "first"
    /\ UNCHANGED <<content, cpool, i, refVars, mainVars, procVars, imap>>

\* line 28: cpool = [cpool_raw[0]]
DecompressFirst ==
    /\ pc = "first"
    /\ IF cpool_raw = <<>>
       THEN /\ Raise("IndexError")
            /\ UNCHANGED <<cpool, i>>
       ELSE /\ cpool' = <<cpool_raw[1]>>
            /\ i' = 1
            /\ pc' = "decompress"
            /\ UNCHANGED <<exception, exit_status>>
    /\ UNCHANGED <<content, cpool_raw, refVars, mainVars, stdout, imap>>

\* lines 29-37: one iteration (i counts from 1 as in the code; cpool_raw[i]
\* of the code is cpool_raw[i + 1] here)
DecompressStep ==
    /\ pc = "decompress"
    /\ i < Len(cpool_raw)
    /\ cpool' = Append(cpool, Decompress(cpool[i], cpool_raw[i + 1]))
    /\ i' = i + 1
    /\ UNCHANGED <<pc, content, cpool_raw, refVars, mainVars, procVars, imap>>

\* line 39, after the loop
PrintExtracted ==
    /\ pc = "decompress"
    /\ i >= Len(cpool_raw)
    /\ stdout' = Append(stdout, <<"Extracted frames", Len(cpool)>>)
    /\ pc' = "extract_f"
    /\ UNCHANGED <<content, poolVars, refVars, mainVars, exception, exit_status, imap>>

BlankPool == cpool_raw = <<>> /\ cpool = <<>> /\ i = 0
BlankRefs == all_frames = <<>> /\ frame_counts = <<>> /\ next_ref = 0
BlankMain ==
    /\ total_samples = 0
    /\ robin_frames = <<>>
    /\ sorted_robin = <<>>
    /\ robin_total = 0
    /\ categories = <<>>
BlankProc == stdout = <<>> /\ exception = "none" /\ exit_status = "running"
BlankImap == imap = <<>>

InitPool ==
    /\ pc = "search"
    /\ \/ content = NoDocument
       \/ \E names \in SeqsUpTo(Names, MaxPool) :
            \E ch \in ChoiceSeqs(names, Len(names)), malformed \in BOOLEAN :
                content = PoolDocument(names, ch, malformed)
    /\ BlankPool /\ BlankRefs /\ BlankMain /\ BlankProc /\ BlankImap

NextPool ==
    \/ Search
    \/ MainNoResult
    \/ ReadLiterals
    \/ DecompressFirst
    \/ DecompressStep
    \/ PrintExtracted

SpecPool == InitPool /\ [][NextPool]_vars

----------------------------------------------------------------------------
(* Claims about the constant pool, checked under SpecPool. *)

\* C1: decompression round trip. Whatever names the declaration encodes, each
\* entry after the first as chr(32+p) followed by the rest of the name for a
\* common-prefix length p with the name before it, the pool the loop builds
\* is exactly those names, entry by entry while it runs; and an empty
\* literal decompresses to the empty string.
C1_RoundTrip ==
    pc \in {"decompress", "extract_f"} =>
        /\ cpool = SubSeq(content.names, 1, i)
        /\ pc = "extract_f" => cpool = content.names
        /\ \A k \in 1..Len(cpool) : cpool_raw[k] = <<>> => cpool[k] = <<>>

\* C1's case: three entries, the second and third both compressed against
\* a non-empty prefix, the third against the whole decompressed second.
C1_Witness ==
    /\ pc = "extract_f"
    /\ Len(cpool) = 3
    /\ Len(cpool_raw[2]) = 2 /\ Ord(cpool_raw[2][1]) - 32 = 1
    /\ Len(cpool_raw[3]) = 1 /\ Ord(cpool_raw[3][1]) - 32 = 2
    /\ cpool[3] = cpool[2]

\* C2: whenever the declaration is found, the parse ends with a pool that
\* has one entry per quoted literal of the declaration, for every literal
\* count, zero included.
C2_PoolLength ==
    (content.hasPool /\ pc \in {"extract_f", "exit"}) =>
        /\ pc = "extract_f"
        /\ exception = "none"
        /\ Len(cpool) = Len(content.literals)

\* C8: a report whose pool declaration is missing or cannot be parsed ends
\* the process with the format diagnostic printed, a non-zero exit status,
\* and nothing extracted.
C8_FormatError ==
    ((~content.hasPool \/ content.malformed) /\ pc \in {"extract_f", "exit"}) =>
        /\ pc = "exit"
        /\ exit_status # 0
        /\ \E k \in 1..Len(stdout) : stdout[k][1] = ErrNoPool
        /\ all_frames = <<>> /\ frame_counts = <<>>

----------------------------------------------------------------------------
(* parse_flamegraph_html, the call records (lines 41-63).  The report body  *)
(* is a sequence of call records name(arg,arg,...) with integer arguments.  *)

RecordNames == {"f", "n", "u"}
ArgValues == {0, 2}
ArgLists == UNION {[1..k -> ArgValues] : k \in 1..4}
CallRecords == {[fn |-> f, args |-> a] : f \in RecordNames, a \in ArgLists}

\* Whether a pattern matches a record: the name, then min_args integers;
\* the weight group is optional and whatever follows is not consumed.
\* line 48, f: \bf\((\d+),\d+,\d+(?:,(\d+))?     min_args 3, weight at 4
\* line 54, n: \bn\((\d+)(?:,(\d+))?             min_args 1, weight at 2
\* line 60, u: \bu\((\d+)(?:,(\d+))?             min_args 1, weight at 2
Matches(rec, fn, min_args) == rec.fn = fn /\ Len(rec.args) >= min_args

\* a plausible slip: an absent weight counts as 0
FramePairDefaultZero(rec, weight_at) ==
    <<rec.args[1], IF Len(rec.args) >= weight_at THEN rec.args[weight_at] ELSE 0>>

\* lines 49-50, 55-56, 61-62: key = int(group(1)), width = int(group(2)) if
\* group(2) else 1 (a matched group is a non-empty, hence true, string)
FramePair(rec, weight_at) ==
    <<rec.args[1], IF Len(rec.args) >= weight_at THEN rec.args[weight_at] ELSE 1>>

\* one re.finditer loop: the pairs of the records the pattern matches, in
\* the order of the records
RECURSIVE FindAll(_, _, _, _)
FindAll(records, fn, min_args, weight_at) ==
    IF records = <<>> THEN <<>>
    ELSE (IF Matches(Head(records), fn, min_args)
          THEN <<FramePair(Head(records), weight_at)>> ELSE <<>>)
            \o FindAll(Tail(records), fn, min_args, weight_at)

\* lines 47-51
ExtractF ==
    /\ pc = "extract_f"
    /\ all_frames' = all_frames \o FindAll(content.records, "f", 3, 4)
    /\ pc' = "extract_n"
    /\ UNCHANGED <<content, poolVars, frame_counts, next_ref, mainVars, procVars, imap>>

\* lines 53-57
ExtractN ==
    /\ pc = "extract_n"
    /\ all_frames' = all_frames \o FindAll(content.records, "n", 1, 2)
    /\ pc' = "extract_u"
    /\ UNCHANGED <<content, poolVars, frame_counts, next_ref, mainVars, procVars, imap>>

\* lines 59-63
ExtractU ==
    /\ pc = "extract_u"
    /\ all_frames' = all_frames \o FindAll(content.records, "u", 1, 2)
    /\ pc' = "count"
    /\ UNCHANGED <<content, poolVars, frame_counts, next_ref, mainVars, procVars, imap>>

\* a report body; its pool is the one-entry pool <<"a">>
BodyDocument(records) ==
    [hasPool |-> TRUE, malformed |-> FALSE, names |-> <<<<"a">>>>,
     literals |-> <<<<"a">>>>, lines |-> Render(<<<<"a">>>>, FALSE),
     records |-> records]

\* the state after line 39 for a report with the given body
InitExtract ==
    /\ pc = "extract_f"
    /\ \E records \in SeqsUpTo(CallRecords, MaxRecords) :
            content = BodyDocument(records)
    /\ cpool_raw = content.literals
    /\ cpool = content.names
    /\ i = Len(cpool_raw)
    /\ stdout = <<<<"Extracted frames", Len(cpool)>>>>
    /\ exception = "none" /\ exit_status = "running"
    /\ BlankRefs /\ BlankMain /\ BlankImap

NextExtract ==
    \/ ExtractF
    \/ ExtractN
    \/ ExtractU

SpecExtract == InitExtract /\ [][NextExtract]_vars

----------------------------------------------------------------------------
(* Claims about the call records, checked under SpecExtract. *)

\* the records any of the three patterns matches, in document order
MatchedRecords ==
    SelectSeq(content.records,
              LAMBDA r : \/ r.fn = "f" /\ Len(r.args) >= 3
                         \/ r.fn \in {"n", "u"})

\* the reference a matched record carries: its first argument, and its
\* weight field (the fourth argument of f, the second of n and u) or 1
ReferenceOf(r) ==
    LET at == IF r.fn = "f" THEN 4 ELSE 2
    IN <<r.args[1], IF Len(r.args) >= at THEN r.args[at] ELSE 1>>

OfPattern(fn) == SelectSeq(MatchedRecords, LAMBDA r : r.fn = fn)

References(recs) == [k \in 1..Len(recs) |-> ReferenceOf(recs[k])]

\* C4 as stated: the extractor returns the references of the matched
\* records in document order across the three patterns.
C4_DocumentOrder ==
    pc = "count" => all_frames = References(MatchedRecords)

\* C4 amended: the extractor returns one reference per matched record,
\* duplicates kept, weight 1 where the record has no weight field, grouped
\* by pattern (all f records, then all n, then all u) and in document order
\* within each group.
C4_GroupedOrder ==
    pc = "count" =>
        /\ Len(all_frames) = Len(MatchedRecords)
        /\ all_frames = References(OfPattern("f") \o OfPattern("n") \o OfPattern("u"))

\* C4's case: an n record before an f record, one of them without a weight
\* field, and the same reference twice.
C4_Witness ==
    /\ pc = "count"
    /\ Len(content.records) >= 2
    /\ content.records[1].fn = "n" /\ content.records[2].fn = "f"
    /\ Len(content.records[1].args) = 1
    /\ Len(all_frames) = 2
    /\ all_frames[1] = all_frames[2]

----------------------------------------------------------------------------
(* parse_flamegraph_html, the sample counts (lines 65-71).  frame_counts is *)
(* the dict as the sequence of its <<name, count>> items in insertion order.*)

\* the position of name among the items, or 0
IndexOf(items, name) ==
    IF \E k \in 1..Len(items) : items[k][1] = name
    THEN CHOOSE k \in 1..Len(items) : items[k][1] = name
    ELSE 0

\* d[name] of a defaultdict(int) read without inserting
Get(items, name) ==
    IF IndexOf(items, name) = 0 THEN 0 ELSE items[IndexOf(items, name)][2]

\* d[name] = value: a new key goes last, an old one keeps its place
Put(items, name, value) ==
    IF IndexOf(items, name) = 0 THEN Append(items, <<name, value>>)
    ELSE [items EXCEPT ![IndexOf(items, name)] = <<name, value>>]

\* a plausible slip: = in place of +=
AddWeightOverwrite(items, name, width) == Put(items, name, width)

\* line 69: frame_counts[name] += width
AddWeight(items, name, width) == Put(items, name, Get(items, name) + width)

\* a plausible slip: <= in place of <
InPoolOffByOne(key, pool) == key <= Len(pool)

\* line 68: key < len(cpool)
InPool(key, pool) == key < Len(pool)

\* whether pool[key] of Python is defined (a negative key counts from the end)
Indexable(pool, key) == -Len(pool) <= key /\ key < Len(pool)

\* pool[key] of Python
At(pool, key) == IF key >= 0 THEN pool[key + 1] ELSE pool[Len(pool) + key + 1]

\* lines 67-69 for one reference
CountRef(items, pool, ref) ==
    IF InPool(ref[1], pool) THEN AddWeight(items, At(pool, ref[1]), ref[2])
    ELSE items

\* lines 67-69 for a sequence of references
RECURSIVE CountAll(_, _, _)
CountAll(items, pool, refs) ==
    IF refs = <<>> THEN items
    ELSE CountAll(CountRef(items, pool, Head(refs)), pool, Tail(refs))

\* lines 67-69: one iteration
CountStep ==
    /\ pc = "count"
    /\ next_ref < Len(all_frames)
    /\ LET ref == all_frames[next_ref + 1]
       IN IF InPool(ref[1], cpool) /\ ~Indexable(cpool, ref[1])
          THEN /\ Raise("IndexError")
               /\ UNCHANGED <<frame_counts, next_ref>>
          ELSE /\ frame_counts' = CountRef(frame_counts, cpool, ref)
               /\ next_ref' = next_ref + 1
               /\ UNCHANGED <<pc, exception, exit_status>>
    /\ UNCHANGED <<content, poolVars, all_frames, mainVars, stdout, imap>>

\* line 71, after the loop: return cpool, frame_counts
Return ==
    /\ pc = "count"
    /\ next_ref >= Len(all_frames)
    /\ pc' = "returned"
    /\ UNCHANGED <<content, poolVars, refVars, mainVars, procVars, imap>>

Foo == <<"f", "o", "o">>
Bar == <<"b", "a", "r">>
CountPools == {<<Foo>>, <<Foo, Bar>>, <<Foo, Foo>>}
RefKeys == {0, 1, 2}
RefWeights == {0, 2, 3, 5}
FrameRefs == RefKeys \X RefWeights

\* the state after line 63, the body of the report left open
InitCount ==
    /\ pc = "count"
    /\ content = NoDocument
    /\ cpool \in CountPools
    /\ cpool_raw = <<>> /\ i = Len(cpool)
    /\ all_frames \in SeqsUpTo(FrameRefs, MaxRefs)
    /\ frame_counts = <<>> /\ next_ref = 0
    /\ stdout = <<<<"Extracted frames", Len(cpool)>>>>
    /\ exception = "none" /\ exit_status = "running"
    /\ BlankMain /\ BlankImap

NextCount ==
    \/ CountStep
    \/ Return

SpecCount == InitCount /\ [][NextCount]_vars

----------------------------------------------------------------------------
(* Claims about the sample counts, checked under SpecCount. *)

\* the total weight of the references among refs that resolve to name
RECURSIVE WeightOf(_, _, _)
WeightOf(refs, pool, name) ==
    IF refs = <<>> THEN 0
    ELSE (IF /\ 0 <= Head(refs)[1] /\ Head(refs)[1] < Len(pool)
             /\ pool[Head(refs)[1] + 1] = name
          THEN Head(refs)[2] ELSE 0) + WeightOf(Tail(refs), pool, name)

\* the names the references among refs resolve to
ResolvedNames(refs, pool) ==
    {pool[refs[k][1] + 1] : k \in {j \in 1..Len(refs) : refs[j][1] < Len(pool)}}

\* the items of a dict, their order left out
AsMap(items) == {items[k] : k \in 1..Len(items)}

\* C5: at every point of the aggregation loop, frame_counts holds exactly
\* the names the references taken so far resolve to, each once, with the
\* sum of those references' weights; a reference whose key is not below the
\* pool's length raises nothing, adds no entry and changes no count.
C5_Aggregation ==
    /\ exception = "none"
    /\ pc \in {"count", "returned"}
    /\ LET done == SubSeq(all_frames, 1, next_ref)
        IN /\ next_ref <= Len(all_frames)
           /\ Cardinality(AsMap(frame_counts)) = Len(frame_counts)
           /\ {e[1] : e \in AsMap(frame_counts)} = ResolvedNames(done, cpool)
           /\ \A e \in AsMap(frame_counts) : e[2] = WeightOf(done, cpool, e[1])
           /\ (pc = "returned" /\ cpool = <<Foo, Bar>>
                 /\ all_frames = <<<<0, 5>>, <<1, 3>>, <<0, 2>>>>)
                => frame_counts = <<<<Foo, 7>>, <<Bar, 3>>>>

\* C5's case: two references to one name and a reference out of range.
C5_Witness ==
    /\ pc = "returned"
    /\ cpool = <<Foo, Bar>>
    /\ all_frames = <<<<0, 5>>, <<2, 3>>, <<0, 2>>>>
    /\ frame_counts = <<<<Foo, 7>>>>

\* the orderings of a sequence
Orderings(refs) ==
    {[k \in 1..Len(refs) |-> refs[f[k]]] :
        f \in {g \in [1..Len(refs) -> 1..Len(refs)] :
                  \A a, b \in 1..Len(refs) : a # b => g[a] # g[b]}}

\* C6: the mapping the loop ends with is the mapping it would end with on
\* any other ordering of the same references.
C6_Commutative ==
    pc = "returned" =>
        \A refs \in Orderings(all_frames) :
            AsMap(CountAll(<<>>, cpool, refs)) = AsMap(frame_counts)

\* C6's case: an ordering of the references on which the loop inserts the
\* names in another order, and a name that two references add to.
C6_Witness ==
    /\ pc = "returned"
    /\ Len(frame_counts) = 2
    /\ \E refs \in Orderings(all_frames) :
            CountAll(<<>>, cpool, refs) # frame_counts
    /\ \E k \in 1..2 : frame_counts[k][2] = 5 /\ <<k - 1, 5>> \notin AsMap(all_frames)

----------------------------------------------------------------------------
(* find_hotspots and main (lines 73-180). *)

\* line 106: [:20]
TopOverall == 20
\* line 122: sorted_robin[:30]
TopRobin == 30
\* line 177: [:5]
TopCategory == 5
\* line 179: [:70]
DisplayWidth == 70

\* 'mimecast/robin'
PatRobin ==
    <<"m", "i", "m", "e", "c", "a", "s", "t", "/", "r", "o", "b", "i", "n">>
\* 'EmailDelivery'
PatEmailDelivery ==
    <<"E", "m", "a", "i", "l", "D", "e", "l", "i", "v", "e", "r", "y">>
\* 'EmailReceipt'
PatEmailReceipt ==
    <<"E", "m", "a", "i", "l", "R", "e", "c", "e", "i", "p", "t">>
\* 'LineInputStream'
PatLineInputStream ==
    <<"L", "i", "n", "e", "I", "n", "p", "u", "t", "S", "t", "r", "e", "a", "m">>
\* 'readLine'
PatReadLine ==
    <<"r", "e", "a", "d", "L", "i", "n", "e">>
\* 'readMultiline'
PatReadMultiline ==
    <<"r", "e", "a", "d", "M", "u", "l", "t", "i", "l", "i", "n", "e">>
\* 'SmtpFoundation.read'
PatSmtpFoundationRead ==
    <<"S", "m", "t", "p", "F", "o", "u", "n", "d", "a", "t", "i", "o", "n", ".", "r", "e", "a", "d">>
\* 'ServerData'
PatServerData ==
    <<"S", "e", "r", "v", "e", "r", "D", "a", "t", "a">>
\* 'EmailReceipt.process'
PatEmailReceiptProcess ==
    <<"E", "m", "a", "i", "l", "R", "e", "c", "e", "i", "p", "t", ".", "p", "r", "o", "c", "e", "s", "s">>
\* 'EmailReceipt.run'
PatEmailReceiptRun ==
    <<"E", "m", "a", "i", "l", "R", "e", "c", "e", "i", "p", "t", ".", "r", "u", "n">>
\* 'LocalStorageClient'
PatLocalStorageClient ==
    <<"L", "o", "c", "a", "l", "S", "t", "o", "r", "a", "g", "e", "C", "l", "i", "e", "n", "t">>
\* 'StorageProcessor'
PatStorageProcessor ==
    <<"S", "t", "o", "r", "a", "g", "e", "P", "r", "o", "c", "e", "s", "s", "o", "r">>
\* 'AVStorage'
PatAVStorage ==
    <<"A", "V", "S", "t", "o", "r", "a", "g", "e">>
\* 'SpamStorage'
PatSpamStorage ==
    <<"S", "p", "a", "m", "S", "t", "o", "r", "a", "g", "e">>
\* 'Dovecot'
PatDovecot ==
    <<"D", "o", "v", "e", "c", "o", "t">>
\* 'EmailParser'
PatEmailParser ==
    <<"E", "m", "a", "i", "l", "P", "a", "r", "s", "e", "r">>
\* 'MimeHeader'
PatMimeHeader ==
    <<"M", "i", "m", "e", "H", "e", "a", "d", "e", "r">>
\* 'EmailBuilder'
PatEmailBuilder ==
    <<"E", "m", "a", "i", "l", "B", "u", "i", "l", "d", "e", "r">>
\* 'Config'
PatConfig ==
    <<"C", "o", "n", "f", "i", "g">>
\* 'Properties'
PatProperties ==
    <<"P", "r", "o", "p", "e", "r", "t", "i", "e", "s">>
\* 'ServerConfig'
PatServerConfig ==
    <<"S", "e", "r", "v", "e", "r", "C", "o", "n", "f", "i", "g">>

\* EmailReceipt.run/readLine
FrameReadLine ==
    <<"E", "m", "a", "i", "l", "R", "e", "c", "e", "i", "p", "t", ".", "r", "u", "n", "/", "r", "e", "a", "d", "L", "i", "n", "e">>
\* EmailReceipt.run
FrameReceiptRun ==
    <<"E", "m", "a", "i", "l", "R", "e", "c", "e", "i", "p", "t", ".", "r", "u", "n">>
\* EmailDelivery/AVStorage
FrameAVStorage ==
    <<"E", "m", "a", "i", "l", "D", "e", "l", "i", "v", "e", "r", "y", "/", "A", "V", "S", "t", "o", "r", "a", "g", "e">>
\* EmailDelivery/DovecotStorageProcessor
FrameDovecotStorage ==
    <<"E", "m", "a", "i", "l", "D", "e", "l", "i", "v", "e", "r", "y", "/", "D", "o", "v", "e", "c", "o", "t", "S", "t", "o", "r", "a", "g", "e", "P", "r", "o", "c", "e", "s", "s", "o", "r">>
\* EmailDelivery/Dovecot/EmailParser
FrameDovecotParser ==
    <<"E", "m", "a", "i", "l", "D", "e", "l", "i", "v", "e", "r", "y", "/", "D", "o", "v", "e", "c", "o", "t", "/", "E", "m", "a", "i", "l", "P", "a", "r", "s", "e", "r">>
\* EmailDelivery/MimeHeader
FrameMimeHeader ==
    <<"E", "m", "a", "i", "l", "D", "e", "l", "i", "v", "e", "r", "y", "/", "M", "i", "m", "e", "H", "e", "a", "d", "e", "r">>
\* mimecast/robin/ServerConfig
FrameServerConfig ==
    <<"m", "i", "m", "e", "c", "a", "s", "t", "/", "r", "o", "b", "i", "n", "/", "S", "e", "r", "v", "e", "r", "C", "o", "n", "f", "i", "g">>
\* mimecast/robin/Main
FrameMain ==
    <<"m", "i", "m", "e", "c", "a", "s", "t", "/", "r", "o", "b", "i", "n", "/", "M", "a", "i", "n">>
\* java/Thread.run
FrameThread ==
    <<"j", "a", "v", "a", "/", "T", "h", "r", "e", "a", "d", ".", "r", "u", "n">>
\* EmailParser.parse
FrameParserOnly ==
    <<"E", "m", "a", "i", "l", "P", "a", "r", "s", "e", "r", ".", "p", "a", "r", "s", "e">>

\* any(x in frame for x in pats)
ContainsAny(frame, pats) == \E x \in pats : Contains(frame, x)

\* line 78
IsRobin(frame_name) ==
    \/ Contains(frame_name, PatRobin)
    \/ Contains(frame_name, PatEmailDelivery)
    \/ Contains(frame_name, PatEmailReceipt)

\* lines 76-81
find_hotspots(items) == SelectSeq(items, LAMBDA e : IsRobin(e[1]))

\* a plausible slip: an item goes before the items of its own count
RECURSIVE InsertDescUnstable(_, _)
InsertDescUnstable(sorted, e) ==
    IF sorted = <<>> THEN <<e>>
    ELSE IF Head(sorted)[2] > e[2]
         THEN <<Head(sorted)>> \o InsertDescUnstable(Tail(sorted), e)
         ELSE <<e>> \o sorted

\* sorted(..., key=lambda x: x[1], reverse=True) keeps the items of one
\* count in their order: an item goes behind every item whose count is not
\* below its own
RECURSIVE InsertDesc(_, _)
InsertDesc(sorted, e) ==
    IF sorted = <<>> THEN <<e>>
    ELSE IF Head(sorted)[2] >= e[2]
         THEN <<Head(sorted)>> \o InsertDesc(Tail(sorted), e)
         ELSE <<e>> \o sorted

\* lines 106, 113, 177: sorted(items, key=lambda x: x[1], reverse=True)
RECURSIVE SortedDesc(_)
SortedDesc(items) ==
    IF items = <<>> THEN <<>>
    ELSE InsertDesc(SortedDesc(SubSeq(items, 1, Len(items) - 1)), items[Len(items)])

\* sum(count for _, count in items)
RECURSIVE SumCounts(_)
SumCounts(items) == IF items = <<>> THEN 0 ELSE Head(items)[2] + SumCounts(Tail(items))

\* (a / b * 100) if b > 0 else 0, as the fraction <<numerator, denominator>>
Percent(a, b) == IF b > 0 THEN <<a * 100, b>> ELSE <<0, 1>>

\* frame.split('/')[-1]
RECURSIVE LastSegment(_)
LastSegment(frame) ==
    IF \E k \in 1..Len(frame) : frame[k] = "/"
    THEN LastSegment(Tail(frame))
    ELSE frame

CatIO == "I/O Reading (LineInputStream, readLine, readMultiline)"
CatSMTP == "SMTP Protocol (ServerData, EmailReceipt)"
CatStorage == "Storage (LocalStorageClient, StorageProcessor)"
CatLMTP == "LMTP Delivery (DovecotStorageProcessor, saveToLmtp)"
CatParsing == "Email Parsing (EmailParser, MimeHeader)"
CatConfig == "Configuration (Config, Properties)"
CatOther == "Other"

\* lines 134-142: the dict's keys in insertion order, each with an empty list
CategoryLabels == <<CatIO, CatSMTP, CatStorage, CatLMTP, CatParsing, CatConfig, CatOther>>
EmptyCategories == [k \in 1..Len(CategoryLabels) |-> <<CategoryLabels[k], <<>>>>]

IOPatterns == {PatLineInputStream, PatReadLine, PatReadMultiline, PatSmtpFoundationRead}
SMTPPatterns == {PatServerData, PatEmailReceiptProcess, PatEmailReceiptRun}
StoragePatterns == {PatLocalStorageClient, PatStorageProcessor, PatAVStorage, PatSpamStorage}
ParsingPatterns == {PatEmailParser, PatMimeHeader, PatEmailBuilder}
ConfigPatterns == {PatConfig, PatProperties, PatServerConfig}

\* categories[label].append(item)
AppendTo(cats, label, item) ==
    [k \in 1..Len(cats) |->
        IF cats[k][1] = label THEN <<label, Append(cats[k][2], item)>> ELSE cats[k]]

\* lines 147-161: the chain from its second test on
ClassifyRest(cats, frame, count) ==
    IF ContainsAny(frame, SMTPPatterns)
    THEN AppendTo(cats, CatSMTP, <<frame, count>>)
    ELSE IF ContainsAny(frame, StoragePatterns)
    THEN IF ~Contains(frame, PatDovecot)
         THEN AppendTo(cats, CatStorage, <<frame, count>>)
         ELSE AppendTo(cats, CatLMTP, <<frame, count>>)
    ELSE IF Contains(frame, PatDovecot)
    THEN AppendTo(cats, CatLMTP, <<frame, count>>)
    ELSE IF ContainsAny(frame, ParsingPatterns)
    THEN AppendTo(cats, CatParsing, <<frame, count>>)
    ELSE IF ContainsAny(frame, ConfigPatterns)
    THEN AppendTo(cats, CatConfig, <<frame, count>>)
    ELSE AppendTo(cats, CatOther, <<frame, count>>)

\* a plausible slip: line 147 an if in place of the elif
ClassifyIndependent(cats, frame, count) ==
    ClassifyRest(IF ContainsAny(frame, IOPatterns)
                 THEN AppendTo(cats, CatIO, <<frame, count>>) ELSE cats,
                 frame, count)

\* lines 145-161: the if/elif chain for one frame
Classify(cats, frame, count) ==
    IF ContainsAny(frame, IOPatterns)
    THEN AppendTo(cats, CatIO, <<frame, count>>)
    ELSE ClassifyRest(cats, frame, count)

\* lines 144-161
RECURSIVE Categorize(_, _)
Categorize(cats, items) ==
    IF items = <<>> THEN cats
    ELSE Categorize(Classify(cats, Head(items)[1], Head(items)[2]), Tail(items))

\* what the script prints, one tuple per line, its kind first
Rule == <<"====">>
LineTotal(n) == <<"Total samples", n>>
LineTop(e, total) == <<"top", e[2], Percent(e[2], total), e[1]>>
LineHotspot(k, e, total, rtotal) ==
    <<"hotspot", k, e[2], Percent(e[2], total), Percent(e[2], rtotal), e[1]>>
LineRobinTotal(rtotal, total) == <<"Total Robin samples", rtotal, total, <<rtotal * 100, total>>>>
LineCategory(label, cat_total, total, rtotal) ==
    <<"category", label, cat_total, Percent(cat_total, total), Percent(cat_total, rtotal)>>
LineCategoryFrame(e, cat_total) ==
    <<"category frame", e[2], Percent(e[2], cat_total),
      SliceTo(LastSegment(e[1]), DisplayWidth)>>

\* lines 96-98
SumTotal ==
    /\ pc = "returned"
    /\ total_samples' = SumCounts(frame_counts)
    /\ stdout' = Append(stdout, LineTotal(SumCounts(frame_counts)))
    /\ pc' = "find_hotspots"
    /\ UNCHANGED <<content, poolVars, refVars, robin_frames, sorted_robin, robin_total,
                   categories, exception, exit_status, imap>>

\* line 101
FindHotspots ==
    /\ pc = "find_hotspots"
    /\ robin_frames' = find_hotspots(frame_counts)
    /\ pc' = "branch"
    /\ UNCHANGED <<content, poolVars, refVars, total_samples, sorted_robin, robin_total,
                   categories, procVars, imap>>

\* lines 103-110: no Robin frame, the top frames overall, return
Fallback ==
    /\ pc = "branch"
    /\ robin_frames = <<>>
    /\ LET sorted_frames == SliceTo(SortedDesc(frame_counts), TopOverall)
       IN stdout' = stdout
             \o <<<<"No Robin-specific frames found.">>, <<"Top 20 frames overall:">>>>
             \o [k \in 1..Len(sorted_frames) |-> LineTop(sorted_frames[k], total_samples)]
    /\ pc' = "exit"
    /\ exit_status' = 0
    /\ UNCHANGED <<content, poolVars, refVars, mainVars, exception, imap>>

\* lines 112-127
RankHotspots ==
    /\ pc = "branch"
    /\ robin_frames # <<>>
    /\ sorted_robin' = SortedDesc(robin_frames)
    /\ robin_total' = SumCounts(robin_frames)
    /\ LET shown == SliceTo(SortedDesc(robin_frames), TopRobin)
       IN stdout' = stdout
             \o <<Rule, <<"ROBIN MTA HOTSPOTS (sorted by sample count)">>, Rule>>
             \o [k \in 1..Len(shown) |->
                    LineHotspot(k, shown[k], total_samples, SumCounts(robin_frames))]
    /\ pc' = "total_line"
    /\ UNCHANGED <<content, poolVars, refVars, total_samples, robin_frames, categories,
                   exception, exit_status, imap>>

\* lines 129-131: robin_total/total_samples*100 has no guard
TotalLine ==
    /\ pc = "total_line"
    /\ IF total_samples = 0
       THEN /\ stdout' = Append(stdout, Rule)
            /\ Raise("ZeroDivisionError")
       ELSE /\ stdout' = stdout \o <<Rule, LineRobinTotal(robin_total, total_samples), Rule>>
            /\ pc' = "categorize"
            /\ UNCHANGED <<exception, exit_status>>
    /\ UNCHANGED <<content, poolVars, refVars, mainVars, imap>>

\* lines 133-161
CategorizeHotspots ==
    /\ pc = "categorize"
    /\ categories' = Categorize(EmptyCategories, sorted_robin)
    /\ pc' = "rollup"
    /\ UNCHANGED <<content, poolVars, refVars, total_samples, robin_frames, sorted_robin,
                   robin_total, procVars, imap>>

\* lines 170-180 for one category
CategoryLines(cat) ==
    IF cat[2] = <<>> THEN <<>>
    ELSE LET cat_total == SumCounts(cat[2])
             top == SliceTo(SortedDesc(cat[2]), TopCategory)
         IN <<LineCategory(cat[1], cat_total, total_samples, robin_total)>>
              \o [k \in 1..Len(top) |-> LineCategoryFrame(top[k], cat_total)]

RECURSIVE RollupLines(_)
RollupLines(cats) ==
    IF cats = <<>> THEN <<>> ELSE CategoryLines(Head(cats)) \o RollupLines(Tail(cats))

\* lines 163-180, and main returns
Rollup ==
    /\ pc = "rollup"
    /\ stdout' = stdout \o <<Rule, <<"HOTSPOT CATEGORIES">>, Rule>> \o RollupLines(categories)
    /\ pc' = "exit"
    /\ exit_status' = 0
    /\ UNCHANGED <<content, poolVars, refVars, mainVars, exception, imap>>

MainFrames ==
    {FrameReadLine, FrameReceiptRun, FrameAVStorage, FrameDovecotStorage,
     FrameDovecotParser, FrameMimeHeader, FrameServerConfig, FrameMain,
     FrameThread, FrameParserOnly}
MainCounts == {0, 1, 2}

\* the sequences of at most n items with distinct names
RECURSIVE ItemSeqs(_)
ItemSeqs(n) ==
    IF n = 0 THEN {<<>>}
    ELSE ItemSeqs(n - 1) \cup
         {Append(items, <<f, c>>) :
            items \in {x \in ItemSeqs(n - 1) : Len(x) = n - 1},
            f \in MainFrames, c \in MainCounts}

DistinctNames(items) ==
    \A a, b \in 1..Len(items) : a # b => items[a][1] # items[b][1]

\* many frames outside the Robin packages: n names with counts 0..2
FillerName(k) == [j \in 1..k |-> "x"]
FillerCounts(n, step) == [k \in 1..n |-> <<FillerName(k), (k * step) % 3>>]

\* the state when parse_flamegraph_html returns frame_counts: the report
\* has one pool entry per item and one n record per item
InitMain ==
    /\ pc = "returned"
    /\ \/ \E items \in ItemSeqs(MaxFrames) :
             DistinctNames(items) /\ frame_counts = items
       \/ \E n \in (TopOverall - 1)..(TopOverall + 2), step \in 0..2 :
             frame_counts = FillerCounts(n, step)
    /\ cpool = IF frame_counts = <<>> THEN <<FrameThread>>
               ELSE [k \in 1..Len(frame_counts) |-> frame_counts[k][1]]
    /\ cpool_raw = Encode(cpool, [k \in 1..Len(cpool) |-> 0])
    /\ i = Len(cpool)
    /\ all_frames = [k \in 1..Len(frame_counts) |-> <<k - 1, frame_counts[k][2]>>]
    /\ next_ref = Len(all_frames)
    /\ content =
         [hasPool |-> TRUE, malformed |-> FALSE, names |-> cpool, literals |-> cpool_raw,
          lines |-> Render(cpool_raw, FALSE),
          records |-> [k \in 1..Len(all_frames) |-> [fn |-> "n", args |-> all_frames[k]]]]
    /\ stdout = <<<<"Extracted frames", Len(cpool)>>>>
    /\ exception = "none" /\ exit_status = "running"
    /\ BlankMain /\ BlankImap

NextMain ==
    \/ SumTotal
    \/ FindHotspots
    \/ Fallback
    \/ RankHotspots
    \/ TotalLine
    \/ CategorizeHotspots
    \/ Rollup

SpecMain == InitMain /\ [][NextMain]_vars

----------------------------------------------------------------------------
(* Claims about the report, checked under SpecMain. *)

\* the percentages a printed line reports
PercentagesOf(line) ==
    CASE line[1] = "top" -> {line[3]}
      [] line[1] = "hotspot" -> {line[4], line[5]}
      [] line[1] = "Total Robin samples" -> {line[4]}
      [] line[1] = "category" -> {line[4], line[5]}
      [] line[1] = "category frame" -> {line[3]}
      [] OTHER -> {}

LinesOf(kind) == SelectSeq(stdout, LAMBDA line : line[1] = kind)

\* C3: when the frame weights sum to 0, main ends without an exception and
\* every percentage it has printed is 0; and a relevant-subset total of 0
\* gives 0 for every percent-of-relevant.
C3_PercentageFloor ==
    pc = "exit" =>
        /\ SumCounts(frame_counts) = 0 =>
              /\ exception = "none"
              /\ \A k \in 1..Len(stdout) : \A p \in PercentagesOf(stdout[k]) : p[1] = 0
        /\ SumCounts(find_hotspots(frame_counts)) = 0 =>
              /\ \A k \in 1..Len(LinesOf("hotspot")) : LinesOf("hotspot")[k][5][1] = 0
              /\ \A k \in 1..Len(LinesOf("category")) : LinesOf("category")[k][5][1] = 0

\* how many times an item stands in the category buckets
RECURSIVE Occurrences(_, _)
Occurrences(cats, item) ==
    IF cats = <<>> THEN 0
    ELSE Len(SelectSeq(Head(cats)[2], LAMBDA e : e = item)) + Occurrences(Tail(cats), item)

Bucket(label) == categories[CHOOSE k \in 1..Len(categories) : categories[k][1] = label][2]
InBucket(label, item) == \E k \in 1..Len(Bucket(label)) : Bucket(label)[k] = item

RECURSIVE BucketTotals(_)
BucketTotals(cats) ==
    IF cats = <<>> THEN 0 ELSE SumCounts(Head(cats)[2]) + BucketTotals(Tail(cats))

C9_Fallback ==
    (pc = "exit" /\ \A k \in 1..Len(frame_counts) : ~IsRobin(frame_counts[k][1])) =>
        LET tops == LinesOf("top")
            Pos(name) == IndexOf(frame_counts, name)
            Before(c1, n1, c2, n2) == c1 > c2 \/ (c1 = c2 /\ Pos(n1) < Pos(n2))
        IN /\ exception = "none"
           /\ exit_status = 0
           /\ Len(tops) = Min(TopOverall, Len(frame_counts))
           /\ \A k \in 1..Len(tops) : <<tops[k][4], tops[k][2]>> \in AsMap(frame_counts)
           /\ \A a, b \in 1..Len(tops) :
                 a < b => Before(tops[a][2], tops[a][4], tops[b][2], tops[b][4])
           /\ \A e \in AsMap(frame_counts) :
                 (\A k \in 1..Len(tops) : tops[k][4] # e[1]) =>
                    \A k \in 1..Len(tops) : Before(tops[k][2], tops[k][4], e[2], e[1])
           /\ \A k \in 1..Len(tops) : tops[k][3] = Percent(tops[k][2], SumCounts(frame_counts))
           /\ LinesOf("hotspot") = <<>>
           /\ LinesOf("Total Robin samples") = <<>>
           /\ LinesOf("category") = <<>>
           /\ LinesOf("No Robin-specific frames found.") # <<>>

\* C9's case: more than 20 frames, none relevant, and a frame left out that
\* has the count of the last one listed.
C9_Witness ==
    /\ pc = "exit"
    /\ Len(frame_counts) > TopOverall
    /\ LinesOf("No Robin-specific frames found.") # <<>>
    /\ Len(LinesOf("top")) = TopOverall
    /\ \E k \in 1..Len(frame_counts) :
          /\ frame_counts[k][2] = LinesOf("top")[TopOverall][2]
          /\ \A j \in 1..TopOverall : LinesOf("top")[j][4] # frame_counts[k][1]
    /\ LinesOf("top")[1][2] > LinesOf("top")[TopOverall][2]

----------------------------------------------------------------------------
(* imap-tool.py, verify_delivery (lines 14-60).  imap holds the call's      *)
(* arguments and locals, the server's folder, and standard error.  A        *)
(* command of imaplib returns the server's OK or NO, or raises: IMAP4.error *)
(* on BAD and on a refused login, IMAP4.abort or OSError when the           *)
(* connection fails.                                                        *)

StatusReplies == {"OK", "NO"}
\* what a call may raise: imaplib.IMAP4.error (line 55), or another
\* Exception such as OSError (line 58)
Raised == {"IMAP4.error", "OSError"}

\* lines 55-60: both handlers print and return None
Except(kind) ==
    imap' = [imap EXCEPT
                !.at = "done",
                !.returned = "None",
                !.stderr = Append(@, IF kind = "IMAP4.error"
                                     THEN <<"IMAP Error", kind>>
                                     ELSE <<"Error", kind>>)]

analyzerVars ==
    <<pc, content, poolVars, refVars, mainVars, procVars>>

\* lines 18-23: IMAP4_SSL for ports 993 and 2993, IMAP4 otherwise
Connect ==
    /\ imap # <<>> /\ imap.at = "connect"
    /\ \/ imap' = [imap EXCEPT !.at = "login",
                                !.ssl = (imap.port = 993 \/ imap.port = 2993)]
       \/ \E kind \in Raised : Except(kind)
    /\ UNCHANGED analyzerVars

\* line 26
Login ==
    /\ imap # <<>> /\ imap.at = "login"
    /\ \/ imap' = [imap EXCEPT !.at = "select"]
       \/ \E kind \in Raised : Except(kind)
    /\ UNCHANGED analyzerVars

\* lines 29-36: select, and int(messages[0]); messages is [None] when the
\* server's OK came without an EXISTS count, and int(None) is a TypeError
Select ==
    /\ imap # <<>> /\ imap.at = "select"
    /\ \/ imap' = [imap EXCEPT
                       !.message_count = Cardinality(imap.folder),
                       !.at = IF imap.delete_all /\ Cardinality(imap.folder) > 0
                              THEN "search" ELSE "logout"]
       \/ imap' = [imap EXCEPT
                       !.at = "logout_failed",
                       !.stderr = Append(@, <<"Error: Could not select folder">>)]
       \/ Except("TypeError")
       \/ \E kind \in Raised : Except(kind)
    /\ UNCHANGED analyzerVars

\* lines 32-33: logout, return None
LogoutFailed ==
    /\ imap # <<>> /\ imap.at = "logout_failed"
    /\ \/ imap' = [imap EXCEPT !.at = "done", !.returned = "None"]
       \/ \E kind \in Raised : Except(kind)
    /\ UNCHANGED analyzerVars

\* the ids of the folder's messages, in ascending order
RECURSIVE Ascending(_)
Ascending(ids) ==
    IF ids = {} THEN <<>>
    ELSE LET least == CHOOSE x \in ids : \A y \in ids : x <= y
         IN <<least>> \o Ascending(ids \ {least})

\* lines 41-43: search ALL; a status other than OK skips the deletion
SearchAll ==
    /\ imap # <<>> /\ imap.at = "search"
    /\ \/ \E status \in StatusReplies :
            imap' = [imap EXCEPT
                        !.message_ids = IF status = "OK" THEN Ascending(imap.folder) ELSE @,
                        !.at = IF status = "OK" THEN "store" ELSE "logout"]
       \/ \E kind \in Raised : Except(kind)
    /\ UNCHANGED analyzerVars

\* lines 44-45: one store; its status is not looked at
Store ==
    /\ imap # <<>> /\ imap.at = "store"
    /\ imap.stored < Len(imap.message_ids)
    /\ \/ \E status \in StatusReplies :
            imap' = [imap EXCEPT
                        !.flagged = IF status = "OK"
                                    THEN @ \cup {imap.message_ids[imap.stored + 1]} ELSE @,
                        !.stored = @ + 1]
       \/ \E kind \in Raised : Except(kind)
    /\ UNCHANGED analyzerVars

\* lines 47-48: expunge, its status not looked at, and the report
Expunge ==
    /\ imap # <<>> /\ imap.at = "store"
    /\ imap.stored >= Len(imap.message_ids)
    /\ \/ \E status \in StatusReplies :
            imap' = [imap EXCEPT
                        !.folder = IF status = "OK" THEN @ \ imap.flagged ELSE @,
                        !.expunged = IF status = "OK" THEN @ \cup imap.flagged ELSE @,
                        !.stderr = Append(@, <<"Deleted messages", Len(imap.message_ids)>>),
                        !.at = "logout"]
       \/ \E kind \in Raised : Except(kind)
    /\ UNCHANGED analyzerVars

\* lines 51-53: logout, return message_count
Logout ==
    /\ imap # <<>> /\ imap.at = "logout"
    /\ \/ imap' = [imap EXCEPT !.at = "done", !.returned = "count"]
       \/ \E kind \in Raised : Except(kind)
    /\ UNCHANGED analyzerVars

\* the most messages the folder holds
MaxMessages == 2
ImapPorts == {143, 993, 2143, 2993}

InitImap ==
    /\ pc = "imap"
    /\ content = NoDocument
    /\ BlankPool /\ BlankRefs /\ BlankMain /\ BlankProc
    /\ \E port \in ImapPorts, delete_all \in BOOLEAN, n \in 0..MaxMessages :
          imap = [at |-> "connect", port |-> port, ssl |-> FALSE,
                  delete_all |-> delete_all,
                  initial |-> 1..n, folder |-> 1..n, flagged |-> {}, expunged |-> {},
                  message_count |-> 0, message_ids |-> <<>>, stored |-> 0,
                  stderr |-> <<>>, returned |-> "pending"]

NextImap ==
    \/ Connect
    \/ Login
    \/ Select
    \/ LogoutFailed
    \/ SearchAll
    \/ Store
    \/ Expunge
    \/ Logout

SpecImap == InitImap /\ [][NextImap]_vars

----------------------------------------------------------------------------
(* The claim about verify_delivery, checked under SpecImap. *)

\* C10: whatever the server answers, verify_delivery returns a count that
\* is not negative or None, no exception leaving it; and when it was called
\* with delete_all and returns a count, every message the folder held has
\* been flagged deleted and expunged, and the number removed has been
\* reported on standard error.
C10_VerifyDelivery ==
    imap.at = "done" =>
        /\ imap.returned \in {"None", "count"}
        /\ imap.returned = "count" => imap.message_count >= 0
        /\ (imap.returned = "count" /\ imap.delete_all) =>
              /\ imap.initial \subseteq imap.flagged
              /\ imap.initial \subseteq imap.expunged
              /\ imap.folder = {}
              /\ imap.initial # {} =>
                    \E k \in 1..Len(imap.stderr) :
                        /\ imap.stderr[k][1] = "Deleted messages"
                        /\ imap.stderr[k][2] = Cardinality(imap.initial)

====
